---- MODULE Spec2Model ----
(***************************************************************************)
(* MediChat Pro: the Streamlit script src/main.py as a state machine.      *)
(* One action is one run of the script (a button click, an edit of the     *)
(* e-mail field or a chat turn); the state is st.session_state plus the    *)
(* shared index collection and the object store the script talks to.       *)
(***************************************************************************)
EXTENDS Integers, Sequences, FiniteSets, TLC

(***************************************************************************)
(* State: st.session_state, the index collection, the object store, and    *)
(* history variables that record what the last script run did.             *)
(***************************************************************************)
VARIABLES
    messages,        \* st.session_state.messages
    vectorstore,     \* st.session_state.vectorstore
    chat_model,      \* st.session_state.chat_model
    document_count,  \* st.session_state.document_count
    receiver_email,  \* st.session_state.receiver_email
    collection,      \* the ChromaDB collection: [exists, count]
    store,           \* keys of the StoredDocuments in the object store, in upload order
    last,            \* history: what the last script run was and what it called
    sinceClear,      \* history: what has reached the index since the last clear
    handleStale      \* history: vectorstore was issued before the last clear

vars == <<messages, vectorstore, chat_model, document_count, receiver_email,
          collection, store, last, sinceClear, handleStale>>

(***************************************************************************)
(* Strings: Python str operations used by the chat input handler.          *)
(***************************************************************************)
CharAt(s, i) == SubSeq(s, i, i)

UpperCase == "ABCDEFGHIJKLMNOPQRSTUVWXYZ"
LowerCase == "abcdefghijklmnopqrstuvwxyz"
Digits == "0123456789"

CharsOf(s) == {CharAt(s, i) : i \in 1..Len(s)}

\* str.lower() on one character
lowerChar(c) ==
    IF c \in CharsOf(UpperCase)
    THEN CharAt(LowerCase, CHOOSE i \in 1..Len(UpperCase) : CharAt(UpperCase, i) = c)
    ELSE c

RECURSIVE lower(_)
\* prompt.lower()
lower(s) ==
    IF Len(s) = 0 THEN s
    ELSE lowerChar(CharAt(s, 1)) \o lower(SubSeq(s, 2, Len(s)))

\* needle in hay
Contains(hay, needle) ==
    \E i \in 1..(Len(hay) - Len(needle) + 1) :
        SubSeq(hay, i, i + Len(needle) - 1) = needle

\* hay.startswith(needle)
startswith(hay, needle) ==
    /\ Len(needle) <= Len(hay)
    /\ SubSeq(hay, 1, Len(needle)) = needle

(***************************************************************************)
(* The e-mail pattern of the send-report branch,                           *)
(*   \b[A-Za-z0-9._%+-]+@[A-Za-z0-9.-]+\.[A-Z|a-z]{2,}\b                   *)
(* and re.search over it: leftmost match, greedy with backtracking.        *)
(***************************************************************************)
Letters == CharsOf(UpperCase) \cup CharsOf(LowerCase)
WordChars == Letters \cup CharsOf(Digits) \cup {"_"}
LocalChars == Letters \cup CharsOf(Digits) \cup {".", "_", "%", "+", "-"}
DomainChars == Letters \cup CharsOf(Digits) \cup {".", "-"}
TldChars == Letters \cup {"|"}

IsWordAt(s, i) == i >= 1 /\ i <= Len(s) /\ CharAt(s, i) \in WordChars

\* \b between positions i-1 and i
WordBoundary(s, i) == IsWordAt(s, i - 1) # IsWordAt(s, i)

AllIn(s, from, to, cls) == \A k \in from..to : CharAt(s, k) \in cls

\* the places a match with its @ at a can start: \b, then [A-Za-z0-9._%+-]+
MatchStarts(s, a) ==
    {i \in 1..(a - 1) : WordBoundary(s, i) /\ AllIn(s, i, a - 1, LocalChars)}

\* the dots that can close the domain: [A-Za-z0-9.-]+ and then \.
MatchDots(s, a) ==
    {d \in (a + 2)..Len(s) :
        CharAt(s, d) = "." /\ AllIn(s, a + 1, d - 1, DomainChars)}

\* the places the final label can end: [A-Z|a-z]{2,}, then \b
MatchEnds(s, d) ==
    {e \in (d + 2)..Len(s) :
        AllIn(s, d + 1, e, TldChars) /\ WordBoundary(s, e + 1)}

\* every match <<start, @, last dot, end>> of the pattern in s
EmailMatches(s) ==
    UNION {UNION {{<<i, a, d, e>> : i \in MatchStarts(s, a), e \in MatchEnds(s, d)} :
                    d \in MatchDots(s, a)} :
             a \in {k \in 1..Len(s) : CharAt(s, k) = "@"}}

\* re.search(email_pattern, prompt), then .group() or ""
ExtractEmail(s) ==
    LET ms == EmailMatches(s) IN
    IF ms = {} THEN ""
    ELSE LET i == CHOOSE x \in {m[1] : m \in ms} : \A m \in ms : x <= m[1]
             mi == {m \in ms : m[1] = i}
             d == CHOOSE x \in {m[3] : m \in mi} : \A m \in mi : m[3] <= x
             md == {m \in mi : m[3] = d}
             e == CHOOSE x \in {m[4] : m \in md} : \A m \in md : m[4] <= x
         IN SubSeq(s, i, e)

\* validate_email of app.email_utils: non-empty local part, a single @, a
\* domain with a dot after a non-empty first part, a final label of two or
\* more letters
validate_email(s) ==
    LET ats == {k \in 1..Len(s) : CharAt(s, k) = "@"} IN
    /\ Cardinality(ats) = 1
    /\ LET a == CHOOSE k \in ats : TRUE
           dots == {k \in (a + 1)..Len(s) : CharAt(s, k) = "."}
       IN /\ a > 1
          /\ dots # {}
          /\ LET d == CHOOSE k \in dots : \A j \in dots : j <= k IN
             /\ d > a + 1
             /\ Len(s) - d >= 2
             /\ AllIn(s, d + 1, Len(s), Letters)

(***************************************************************************)
(* The chat input handler's command triggers (the if/elif chain).          *)
(***************************************************************************)
\* lines 443-451: the report-request phrases of the send-report condition
ReportPhrase(prompt) ==
    LET lp == lower(prompt)
        at == Contains(prompt, "@")
    IN \/ Contains(lp, "send report to")
       \/ Contains(lp, "send analysis report to")
       \/ Contains(lp, "send analytics to")
       \/ Contains(lp, "send this report to")
       \/ Contains(lp, "email report to")
       \/ Contains(lp, "send this repot to")
       \/ Contains(lp, "send report")
       \/ (Contains(lp, "send") /\ Contains(lp, "report") /\ at)
       \/ (Contains(lp, "send") /\ Contains(lp, "repot") /\ at)

\* lines 443-451: the send-report condition, a phrase and an @ in the text
SendReportTrigger(prompt) == ReportPhrase(prompt) /\ Contains(prompt, "@")

\* lines 514-522: the support-ticket condition
SupportTicketTrigger(prompt) ==
    LET lp == lower(prompt) IN
    \/ startswith(lp, "create support ticket")
    \/ startswith(lp, "support ticket")
    \/ Contains(lp, "create a support ticket")
    \/ Contains(lp, "create support ticket")
    \/ Contains(lp, "send support ticket")
    \/ Contains(lp, "create ticket")
    \/ (Contains(lp, "support") /\ Contains(lp, "ticket"))
    \/ Contains(lp, "generate ticket")
    \/ Contains(lp, "open ticket")

\* a variant of the process-s3 condition that looks for the phrase anywhere
ProcessS3TriggerAnywhere(prompt) ==
    LET lp == lower(prompt) IN
    \/ Contains(lp, "process s3")
    \/ Contains(lp, "process all s3")

\* line 554: the process-s3 condition
ProcessS3Trigger(prompt) ==
    LET lp == lower(prompt) IN
    \/ startswith(lp, "process s3")
    \/ startswith(lp, "process all s3")

\* a variant of the save-session condition that also reads the session: the
\* command is recognised only once a recipient has been entered
SaveSessionTriggerWithReceiver(prompt) ==
    /\ receiver_email # ""
    /\ Contains(lower(prompt), "save")

\* lines 600-602: the save-session condition
SaveSessionTrigger(prompt) ==
    LET lp == lower(prompt) IN
    \/ startswith(lp, "save session")
    \/ Contains(lp, "save session")
    \/ Contains(lp, "save the session")

\* a variant of the chain with the support-ticket test ahead of the
\* send-report test
ClassifyTicketFirst(prompt) ==
    IF SupportTicketTrigger(prompt) THEN "SupportTicket"
    ELSE IF SendReportTrigger(prompt) THEN "SendReport"
    ELSE IF ProcessS3Trigger(prompt) THEN "ProcessStoreDocuments"
    ELSE IF SaveSessionTrigger(prompt) THEN "SaveSession"
    ELSE "PlainQuery"

\* the branch of the if/elif chain that runs for a prompt
Classify(prompt) ==
    IF SendReportTrigger(prompt) THEN "SendReport"
    ELSE IF SupportTicketTrigger(prompt) THEN "SupportTicket"
    ELSE IF ProcessS3Trigger(prompt) THEN "ProcessStoreDocuments"
    ELSE IF SaveSessionTrigger(prompt) THEN "SaveSession"
    ELSE "PlainQuery"

\* the chat inputs the model draws from
Prompts ==
    { "send report to a@b.co",
      "send report to notanemail",
      "send report to a@b",
      "Send this repot a@b.c|d",
      "send support ticket report x@y.zz, a@b.co",
      "create support ticket",
      "Process S3",
      "please process s3",
      "save the session",
      "What does this lab report show?" }

\* the branch, the extracted address and its validity for each chat input
IntentOf == [p \in Prompts |-> Classify(p)]

(***************************************************************************)
(* Bounds of the model.                                                    *)
(***************************************************************************)
\* chat turns are taken while the history is shorter than this
MaxMsgs == 1
\* ingestion is taken while the collection stays within this many chunks
MaxCount == 4
\* chunks the text splitter makes of one document's text
ChunksPerText == 2

None == "None"

\* the values the e-mail field is edited to
Emails == {"user@example.com", "user@com"}

\* the names of the files a user uploads; the store key of a file is its name
Files == {"a.pdf"}

\* outcomes of a call that can raise
CallOutcomes == {"ok", "raise"}

\* batch size of create_faiss_index
BatchSize == 1

\* EMAIL_CONFIG['receiver_email'] of app.config, with no EMAIL_RECEIVER set
EMAIL_CONFIG_receiver_email == "sudhanshu@euron.one"

\* a variant of the ticket's destination: the contact address when there is one
TicketDestinationContact(user_email) ==
    IF user_email # "" THEN user_email ELSE EMAIL_CONFIG_receiver_email

\* send_support_ticket(user_query, ai_response, user_email, chat_history):
\* the address the ticket is sent to, the operator's
TicketDestination(user_email) == EMAIL_CONFIG_receiver_email

\* st.session_state.messages.append({...})
append(msgs, role, content, insights) ==
    Append(msgs, [role |-> role, content |-> content, insights |-> insights])

\* what a script run that did nothing yet has observed
NoCalls(kind) ==
    [kind |-> kind, prompt |-> "", intent |-> "-", before |-> Len(messages),
     retrieved |-> FALSE, completed |-> FALSE, reportTo |-> "",
     ticket |-> FALSE, contact |-> "", ticketTo |-> "", texts |-> -1,
     inserted |-> 0, uploaded |-> {}, already |-> {}, failed |-> {},
     ok |-> TRUE]

(***************************************************************************)
(* The collaborators of app.vectorstore_utils and app.s3_utils.            *)
(***************************************************************************)
\* ensure_collection_exists(): Absent -> Empty, otherwise unchanged
ensure_collection_exists(coll) == [coll EXCEPT !.exists = TRUE]

\* the chunk counts create_faiss_index(chunks) can leave inserted: all n, or
\* the whole batches before the batch that failed
IndexOutcomes(n) == {k \in 0..n : k = n \/ k % BatchSize = 0}

\* a variant of the insert that keeps one copy of a chunk's text
InsertedDeduplicated(coll, k) ==
    [exists |-> TRUE, count |-> IF coll.count >= k THEN coll.count ELSE k]

\* the collection after create_faiss_index inserted k chunks
Inserted(coll, k) == [exists |-> TRUE, count |-> coll.count + k]

\* clear_chroma_collection() on success: all data destroyed, Absent
Cleared == [exists |-> FALSE, count |-> 0]

\* len(chunks) for the texts of the given documents
ChunkCount(docs) == Cardinality(docs) * ChunksPerText

RECURSIVE SeqOf(_)
\* the files of a set, as the list the uploader hands over
SeqOf(S) ==
    IF S = {} THEN <<>>
    ELSE LET f == CHOOSE x \in S : TRUE IN <<f>> \o SeqOf(S \ {f})

\* the keys that exist in the store
StoredKeys == {store[i] : i \in 1..Len(store)}

\* a variant of the upload that stores every file it is given
StoreAfterUploadAgain(uploaded, reachable) ==
    IF reachable THEN store \o SeqOf(uploaded) ELSE store

\* process_uploaded_files_with_s3: an upload whose key exists is skipped, a
\* new one is stored when the store is reachable
StoreAfterUpload(uploaded, reachable) ==
    IF reachable THEN store \o SeqOf(uploaded \ StoredKeys) ELSE store

\* s3_results['already_in_s3']: the uploads whose key was found in the store
AlreadyInS3(uploaded, reachable) ==
    IF reachable THEN uploaded \cap StoredKeys ELSE {}

\* s3_results['failed_uploads']: the uploads of a run that cannot reach the store
FailedUploads(uploaded, reachable) ==
    IF reachable THEN {} ELSE uploaded

\* all_texts of process_uploaded_files_with_s3: the uploaded files that
\* extract_text_from_pdf got text from
UploadedTextSets(uploaded) == SUBSET uploaded

\* all_texts of process_all_s3_documents_for_vector_storage: the stored
\* documents that were fetched and had text (one that fails is skipped)
StoreTextSets == SUBSET StoredKeys

(***************************************************************************)
(* The top of the script: session defaults and auto-initialisation.        *)
(***************************************************************************)
\* lines 85-110: the defaults and the auto-initialisation from an existing
\* collection, on the session fields vs, cm, dc and the collection coll
AutoInit(vs, cm, dc, coll, ai) ==
    IF vs = None /\ cm = None /\ ai = "ok"
    THEN IF coll.count > 0
         THEN [vs |-> "initialized", cm |-> "chat_model", dc |-> coll.count,
               coll |-> ensure_collection_exists(coll), issued |-> TRUE]
         ELSE [vs |-> vs, cm |-> cm, dc |-> dc,
               coll |-> ensure_collection_exists(coll), issued |-> FALSE]
    ELSE [vs |-> vs, cm |-> cm, dc |-> dc, coll |-> coll, issued |-> FALSE]

\* the outcomes of the calls of lines 100-107, made only with no handle and no model
AutoInitOutcomes(vs, cm) == IF vs = None /\ cm = None THEN CallOutcomes ELSE {"ok"}

\* the outcomes of retrieval followed by completion, called only with both set
AnswerOutcomes(s) ==
    IF s.vs # None /\ s.cm # None
    THEN {"ok", "retrieval_raises", "completion_raises"}
    ELSE {"ok"}

\* the results of a dispatch that is made only if wanted
SendOutcomes(wanted) == IF wanted THEN BOOLEAN ELSE {TRUE}

\* the top of a script run on the current session
Top(ai) == AutoInit(vectorstore, chat_model, document_count, collection, ai)
TopOutcomes == AutoInitOutcomes(vectorstore, chat_model)

\* the history of the index after a run that inserted k of n chunks
SinceClearAfter(k, n) ==
    IF k = n THEN "no_clear"
    ELSE IF k > 0 /\ sinceClear = "cleared" THEN "partial"
    ELSE sinceClear

\* the session after the first script run
Init ==
    /\ messages = <<>>
    /\ receiver_email = ""
    /\ store \in {SeqOf(S) : S \in SUBSET Files}
    /\ \E c0 \in {[exists |-> FALSE, count |-> 0], [exists |-> TRUE, count |-> 0],
                   [exists |-> TRUE, count |-> ChunksPerText]},
          ai \in CallOutcomes :
          LET s == AutoInit(None, None, 0, c0, ai) IN
          /\ collection = s.coll
          /\ vectorstore = s.vs
          /\ chat_model = s.cm
          /\ document_count = s.dc
    /\ last = [kind |-> "start", prompt |-> "", intent |-> "-", before |-> 0,
               retrieved |-> FALSE, completed |-> FALSE, reportTo |-> "",
               ticket |-> FALSE, contact |-> "", ticketTo |-> "", texts |-> -1,
               inserted |-> 0, uploaded |-> {}, already |-> {}, failed |-> {},
     ok |-> TRUE]
    /\ sinceClear = "no_clear"
    /\ handleStale = FALSE

(***************************************************************************)
(* The sidebar.                                                            *)
(***************************************************************************)
\* a run leaves the session fields and the collection as s holds them
SetSession(s, since) ==
    /\ vectorstore' = s.vs
    /\ chat_model' = s.cm
    /\ document_count' = s.dc
    /\ collection' = s.coll
    /\ handleStale' = (handleStale /\ ~s.issued)
    /\ sinceClear' = since

KeepSession(s) == SetSession(s, sinceClear)

\* st.session_state.get("receiver_email") and validate_email(...)
ValidReceivers == {e \in Emails : validate_email(e)}

\* a variant of the recipient test without validate_email
ReceiverPresent == receiver_email # ""

ReceiverValid == receiver_email # "" /\ receiver_email \in ValidReceivers

\* lines 321-333: List S3 Documents, a run that only shows the store
ListS3Documents ==
    \E ai \in TopOutcomes :
        /\ KeepSession(Top(ai))
        /\ last' = NoCalls("view")
        /\ UNCHANGED <<messages, receiver_email, store>>

\* lines 131-148: the recipient field is edited to a non-empty value
EditEmail(e) ==
    \E ai \in TopOutcomes :
        /\ receiver_email' = e
        /\ KeepSession(Top(ai))
        /\ last' = NoCalls("view")
        /\ UNCHANGED <<messages, store>>

\* lines 186-210: Send Analysis Report, disabled without a valid recipient
SidebarSendReport ==
    /\ ReceiverValid
    /\ \E ai \in TopOutcomes :
        /\ KeepSession(Top(ai))
        /\ last' = [NoCalls("sidebar_report") EXCEPT !.reportTo = receiver_email]
        /\ UNCHANGED <<messages, receiver_email, store>>

\* lines 212-228: Create Support Ticket
SidebarSupportTicket ==
    \E ai \in TopOutcomes :
        /\ KeepSession(Top(ai))
        /\ last' = [NoCalls("sidebar_ticket") EXCEPT
                        !.ticket = TRUE, !.contact = receiver_email,
                        !.ticketTo = TicketDestination(receiver_email)]
        /\ UNCHANGED <<messages, receiver_email, store>>

\* lines 232-269: Save Session
SidebarSaveSession ==
    \E ai \in TopOutcomes :
        /\ KeepSession(Top(ai))
        /\ last' = [NoCalls("sidebar_save") EXCEPT
                        !.reportTo = IF ReceiverValid THEN receiver_email ELSE "",
                        !.ok = ReceiverValid]
        /\ UNCHANGED <<messages, receiver_email, store>>

\* variants of the deleted keys: the history is dropped with the index, and
\* the handle is kept
ClearedKeysWithMessages == {"vectorstore", "document_count", "messages"}
ClearedKeysCountOnly == {"document_count"}

\* lines 307-310: the session keys the handler deletes when the clear succeeded
ClearedKeys == {"vectorstore", "document_count"}

\* lines 85-95: a deleted key is set to its default by the rerun
AfterDelete(key, value, default) == IF key \in ClearedKeys THEN default ELSE value

\* a variant of the test of line 304: the call returned, whatever it returned
ClearReturned(cleared) == cleared # "raise"

\* line 304: if clear_chroma_collection()
ClearSucceeded(cleared) == cleared = "ok"

\* lines 302-315: Clear All Documents; after the deletions the script reruns
ClearAllDocuments ==
    \E ai \in TopOutcomes, cleared \in {"ok", "false", "raise"}, ai2 \in CallOutcomes :
        LET s == Top(ai)
            coll == IF cleared = "ok" THEN Cleared ELSE s.coll
        IN
        /\ IF ClearSucceeded(cleared)
           THEN LET r == AutoInit(AfterDelete("vectorstore", s.vs, None),
                                  AfterDelete("chat_model", s.cm, None),
                                  AfterDelete("document_count", s.dc, 0),
                                  coll, ai2)
                IN /\ ai2 \in AutoInitOutcomes(AfterDelete("vectorstore", s.vs, None),
                                                AfterDelete("chat_model", s.cm, None))
                   /\ messages' = AfterDelete("messages", messages, <<>>)
                   /\ receiver_email' = AfterDelete("receiver_email", receiver_email, "")
                   /\ vectorstore' = r.vs
                   /\ chat_model' = r.cm
                   /\ document_count' = r.dc
                   /\ collection' = r.coll
                   /\ handleStale' = IF cleared = "ok"
                                     THEN r.vs # None /\ ~r.issued
                                     ELSE handleStale /\ ~r.issued
                   /\ sinceClear' = IF cleared = "ok" THEN "cleared" ELSE sinceClear
           ELSE /\ ai2 = "ok"
                /\ KeepSession(s)
                /\ UNCHANGED <<messages, receiver_email>>
        /\ last' = [NoCalls("clear") EXCEPT !.ok = (cleared = "ok")]
        /\ UNCHANGED store

\* create_faiss_index(chunks) on n chunks of which k get inserted, then the
\* session assignments that follow it (lines 357-363, 413-419, 573-579)
Ingest(s, n, k, docs) ==
    IF k = n
    THEN [vs |-> "index", cm |-> "chat_model", dc |-> docs,
          coll |-> Inserted(s.coll, k), issued |-> TRUE]
    ELSE [vs |-> s.vs, cm |-> s.cm, dc |-> s.dc,
          coll |-> Inserted(s.coll, k), issued |-> s.issued]

\* a variant of the test of lines 340 and 559 that is always taken
HasTextsAlways(texts) == TRUE

\* lines 340 and 559: if all_texts
HasTexts(texts) == texts # {}

\* lines 336-368: Process All S3 Documents
SidebarProcessS3 ==
    \E ai \in TopOutcomes, texts \in StoreTextSets :
        LET s == Top(ai)
            n == ChunkCount(texts)
        IN /\ s.coll.count + n <= MaxCount
           /\ \E k \in IndexOutcomes(n) :
                /\ IF ~HasTexts(texts)
                   THEN /\ KeepSession(s)
                        /\ last' = [NoCalls("sidebar_process") EXCEPT !.texts = 0]
                   ELSE /\ SetSession(Ingest(s, n, k, Cardinality(texts)),
                                      SinceClearAfter(k, n))
                        /\ last' = [NoCalls("sidebar_process") EXCEPT
                                        !.texts = Cardinality(texts),
                                        !.inserted = k, !.ok = (k = n)]
           /\ UNCHANGED <<messages, receiver_email, store>>

\* a variant in which chunks is assigned before the test of line 397
ChunksAssignedAlways(texts) == TRUE

\* lines 397-409: chunks is assigned in the else branch of `if not all_texts`
ChunksAssigned(texts) == texts # {}

\* lines 370-423: Process Documents on the uploaded files
ProcessDocuments(uploaded) ==
    \E ai \in TopOutcomes, reachable \in BOOLEAN, texts \in UploadedTextSets(uploaded) :
        LET s == Top(ai)
            n == ChunkCount(texts)
        IN /\ s.coll.count + n <= MaxCount
           /\ store' = StoreAfterUpload(uploaded, reachable)
           /\ \E k \in IndexOutcomes(n) :
                IF ~ChunksAssigned(texts)
                THEN \* line 413 reads chunks, which was never assigned
                     /\ KeepSession(s)
                     /\ last' = [NoCalls("upload") EXCEPT
                                     !.texts = 0, !.ok = FALSE,
                                     !.uploaded = uploaded,
                                     !.already = AlreadyInS3(uploaded, reachable),
                                     !.failed = FailedUploads(uploaded, reachable)]
                ELSE /\ SetSession(Ingest(s, n, k, Cardinality(uploaded)),
                                   SinceClearAfter(k, n))
                     /\ last' = [NoCalls("upload") EXCEPT
                                     !.texts = Cardinality(texts),
                                     !.inserted = k, !.ok = (k = n),
                                     !.uploaded = uploaded,
                                     !.already = AlreadyInS3(uploaded, reachable),
                                     !.failed = FailedUploads(uploaded, reachable)]
           /\ UNCHANGED <<messages, receiver_email>>

(***************************************************************************)
(* The chat input handler.                                                 *)
(***************************************************************************)
\* a variant of line 460 that accepts every address the pattern found
SendReportFound(prompt) == ExtractEmail(prompt) # ""

\* line 460: the extracted address passes validate_email
SendReportValid(prompt) == validate_email(ExtractEmail(prompt))

\* the extracted address of each chat input and whether line 460 accepts it
EmailIn == [p \in Prompts |-> ExtractEmail(p)]
ValidIn == [p \in Prompts |-> SendReportValid(p)]

\* a variant of the end of the turn that appends the user message whether or
\* not a command handled the turn
GenerateResponseAlwaysAppends(msgs, prompt, vs, cm, command_processed, answer) ==
    LET m0 == append(msgs, "user", prompt, FALSE)
    IN IF vs # None /\ cm # None
       THEN IF answer = "ok"
            THEN [messages |-> append(m0, "assistant", "answer", TRUE),
                  retrieved |-> TRUE, completed |-> TRUE, ok |-> TRUE]
            ELSE [messages |-> m0, retrieved |-> TRUE,
                  completed |-> (answer = "completion_raises"), ok |-> FALSE]
       ELSE [messages |-> m0, retrieved |-> FALSE, completed |-> FALSE,
             ok |-> TRUE]

\* a variant of the end of the turn that answers whenever a chat model is set
GenerateResponseModelOnly(msgs, prompt, vs, cm, command_processed, answer) ==
    LET m0 == IF ~command_processed
              THEN append(msgs, "user", prompt, FALSE)
              ELSE msgs
    IN IF cm # None
       THEN [messages |-> append(m0, "assistant", "answer", TRUE),
             retrieved |-> TRUE, completed |-> TRUE, ok |-> TRUE]
       ELSE [messages |-> m0, retrieved |-> FALSE, completed |-> FALSE,
             ok |-> TRUE]

\* lines 656-778: the user message of a turn no command handled, then the
\* response generation, which is not under the command_processed test
GenerateResponse(msgs, prompt, vs, cm, command_processed, answer) ==
    LET m0 == IF ~command_processed
              THEN append(msgs, "user", prompt, FALSE)
              ELSE msgs
    IN IF vs # None /\ cm # None
       THEN IF answer = "retrieval_raises"
            THEN [messages |-> m0, retrieved |-> TRUE, completed |-> FALSE,
                  ok |-> FALSE]
            ELSE IF answer = "completion_raises"
            THEN [messages |-> m0, retrieved |-> TRUE, completed |-> TRUE,
                  ok |-> FALSE]
            ELSE [messages |-> append(m0, "assistant", "answer", TRUE),
                  retrieved |-> TRUE, completed |-> TRUE, ok |-> TRUE]
       ELSE [messages |-> m0, retrieved |-> FALSE, completed |-> FALSE,
             ok |-> TRUE]

\* a command branch's two appends (lines 486-494 and alike)
AppendPair(msgs, prompt, response) ==
    append(append(msgs, "user", prompt, FALSE), "assistant", response, FALSE)

\* the end of a chat turn: s is the session after the branch, msgs the history
\* after it, obs what the branch called
FinishTurn(prompt, intent, s, since, msgs, command_processed, obs, answer) ==
    LET g == GenerateResponse(msgs, prompt, s.vs, s.cm, command_processed, answer)
    IN /\ messages' = g.messages
       /\ SetSession(s, since)
       /\ last' = [obs EXCEPT !.kind = "chat", !.prompt = prompt,
                              !.intent = intent, !.retrieved = g.retrieved,
                              !.completed = g.completed, !.ok = g.ok]
       /\ UNCHANGED <<receiver_email, store>>

\* lines 443-511: send report to the address in the text
ChatSendReport(prompt) ==
    /\ Len(messages) < MaxMsgs
    /\ IntentOf[prompt] = "SendReport"
    /\ \E ai \in TopOutcomes, success \in SendOutcomes(ValidIn[prompt]) :
      \E answer \in AnswerOutcomes(Top(ai)) :
        LET email_match == EmailIn[prompt]
            response ==
                IF ValidIn[prompt]
                THEN IF success
                     THEN "Analysis report sent to " \o email_match \o "!"
                     ELSE "Failed to send report to " \o email_match
                ELSE "Invalid email address: " \o email_match
            obs == [NoCalls("chat") EXCEPT
                        !.reportTo = IF ValidIn[prompt]
                                     THEN email_match ELSE ""]
        IN FinishTurn(prompt, "SendReport", Top(ai), sinceClear,
                      AppendPair(messages, prompt, response), TRUE, obs, answer)

\* lines 514-551: create a support ticket
ChatSupportTicket(prompt) ==
    /\ Len(messages) < MaxMsgs
    /\ IntentOf[prompt] = "SupportTicket"
    /\ \E ai \in TopOutcomes, success \in BOOLEAN :
      \E answer \in AnswerOutcomes(Top(ai)) :
        LET response ==
                IF success
                THEN "Support ticket created and sent to sudhanshu@euron.one!"
                ELSE "Failed to create support ticket"
            obs == [NoCalls("chat") EXCEPT
                        !.ticket = TRUE, !.contact = receiver_email,
                        !.ticketTo = TicketDestination(receiver_email)]
        IN FinishTurn(prompt, "SupportTicket", Top(ai), sinceClear,
                      AppendPair(messages, prompt, response), TRUE, obs, answer)

\* a session in which response generation is not reached
NotReady == [vs |-> None, cm |-> None]

\* lines 554-597: process the documents of the store
ChatProcessS3(prompt) ==
    /\ Len(messages) < MaxMsgs
    /\ IntentOf[prompt] = "ProcessStoreDocuments"
    /\ \E ai \in TopOutcomes, texts \in StoreTextSets :
        LET s == Top(ai)
            n == ChunkCount(texts)
        IN /\ s.coll.count + n <= MaxCount
           /\ \E k \in IndexOutcomes(n) :
              \E answer \in AnswerOutcomes(IF ~HasTexts(texts) THEN s
                                           ELSE IF k = n THEN Ingest(s, n, k, 0)
                                           ELSE NotReady) :
                IF ~HasTexts(texts)
                THEN FinishTurn(prompt, "ProcessStoreDocuments", s, sinceClear,
                         AppendPair(messages, prompt,
                                    "No documents could be processed from S3"),
                         TRUE, [NoCalls("chat") EXCEPT !.texts = 0], answer)
                ELSE IF k = n
                THEN FinishTurn(prompt, "ProcessStoreDocuments",
                         Ingest(s, n, k, Cardinality(texts)), SinceClearAfter(k, n),
                         AppendPair(messages, prompt,
                             "Successfully processed " \o ToString(Cardinality(texts))
                             \o " S3 documents with " \o ToString(n)
                             \o " chunks! All S3 documents are now available for chat."),
                         TRUE,
                         [NoCalls("chat") EXCEPT !.texts = Cardinality(texts),
                                                 !.inserted = k],
                         answer)
                ELSE \* create_faiss_index raised: the run ends at line 573
                     /\ SetSession(Ingest(s, n, k, Cardinality(texts)),
                                   SinceClearAfter(k, n))
                     /\ last' = [NoCalls("chat") EXCEPT
                                     !.prompt = prompt,
                                     !.intent = "ProcessStoreDocuments",
                                     !.texts = Cardinality(texts),
                                     !.inserted = k, !.ok = FALSE]
                     /\ UNCHANGED <<messages, receiver_email, store>>

\* lines 600-654: save the session
ChatSaveSession(prompt) ==
    /\ Len(messages) < MaxMsgs
    /\ IntentOf[prompt] = "SaveSession"
    /\ \E ai \in TopOutcomes, success \in SendOutcomes(ReceiverValid) :
      \E answer \in AnswerOutcomes(Top(ai)) :
        LET response ==
                IF ReceiverValid
                THEN IF success
                     THEN "Session saved and summary sent to email!"
                     ELSE "Failed to save session"
                ELSE "Please enter a valid email address to save session"
            obs == [NoCalls("chat") EXCEPT
                        !.reportTo = IF ReceiverValid THEN receiver_email ELSE ""]
        IN FinishTurn(prompt, "SaveSession", Top(ai), sinceClear,
                      AppendPair(messages, prompt, response), TRUE, obs, answer)

\* lines 656-778: no command matched, the text is a question
ChatPlainQuery(prompt) ==
    /\ Len(messages) < MaxMsgs
    /\ IntentOf[prompt] = "PlainQuery"
    /\ \E ai \in TopOutcomes :
      \E answer \in AnswerOutcomes(Top(ai)) :
        FinishTurn(prompt, "PlainQuery", Top(ai), sinceClear, messages, FALSE,
                   NoCalls("chat"), answer)

Next ==
    \/ ListS3Documents
    \/ \E e \in Emails : EditEmail(e)
    \/ SidebarSendReport
    \/ SidebarSupportTicket
    \/ SidebarSaveSession
    \/ ClearAllDocuments
    \/ SidebarProcessS3
    \/ \E uploaded \in SUBSET Files \ {{}} : ProcessDocuments(uploaded)
    \/ \E prompt \in Prompts : ChatSendReport(prompt)
    \/ \E prompt \in Prompts : ChatSupportTicket(prompt)
    \/ \E prompt \in Prompts : ChatProcessS3(prompt)
    \/ \E prompt \in Prompts : ChatSaveSession(prompt)
    \/ \E prompt \in Prompts : ChatPlainQuery(prompt)

Spec == Init /\ [][Next]_vars

(***************************************************************************)
(* What a state says about the chat turn that led to it.                   *)
(***************************************************************************)
\* the last script run was a chat turn
Turn == last.kind = "chat"

\* the messages the last run appended
Appended == SubSeq(messages, last.before + 1, Len(messages))

Roles(msgs) == [i \in 1..Len(msgs) |-> msgs[i].role]

CommandIntents == {"SendReport", "SupportTicket", "ProcessStoreDocuments", "SaveSession"}

\* create_faiss_index raised in the last run
IngestionRaised == last.texts > 0 /\ last.inserted < last.texts * ChunksPerText

\* the reply of a command branch: the message after the user's
Reply == Appended[2].content

(***************************************************************************)
(* C1..C4: the command router.                                             *)
(***************************************************************************)
\* C1: a chat turn classified as SendReport, SupportTicket,
\* ProcessStoreDocuments or SaveSession, in which the command branch ran to
\* its end, appends exactly one user message and one assistant message and
\* calls neither retrieval nor the completion service, in every session
\* state, one with the index ready and a chat model set included.
C1_CommandTurnIsTerminal ==
    Turn /\ last.intent \in CommandIntents /\ ~IngestionRaised
        => /\ Roles(Appended) = <<"user", "assistant">>
           /\ ~last.retrieved
           /\ ~last.completed

\* the chat inputs that hold a report-request phrase
ReportPhraseIn == [p \in Prompts |-> ReportPhrase(p)]

\* C2: a chat turn whose text holds a report-request phrase and no
\* e-mail-shaped substring consumes the turn with an invalid-address reply,
\* sends nothing, and is never handled as a PlainQuery.
C2_PhraseWithoutEmailIsInvalidAddress ==
    Turn /\ ReportPhraseIn[last.prompt] /\ EmailIn[last.prompt] = ""
        => /\ last.intent # "PlainQuery"
           /\ last.reportTo = ""
           /\ Len(Appended) >= 2
           /\ Reply = "Invalid email address: "

\* C3: after a chat turn, ended well or not, every user message the turn
\* appended is followed by an assistant message the turn appended: there is
\* no half-appended pair.
C3_NoHalfAppendedPair ==
    Turn => \A i \in (last.before + 1)..Len(messages) :
                messages[i].role = "user"
                    => i < Len(messages) /\ messages[i + 1].role = "assistant"

\* the fixed priority order of the intents and the rule of each
Priority == <<"SendReport", "SupportTicket", "ProcessStoreDocuments", "SaveSession",
              "PlainQuery">>

Matches(intent, prompt) ==
    CASE intent = "SendReport" -> SendReportTrigger(prompt)
      [] intent = "SupportTicket" -> SupportTicketTrigger(prompt)
      [] intent = "ProcessStoreDocuments" -> ProcessS3Trigger(prompt)
      [] intent = "SaveSession" -> SaveSessionTrigger(prompt)
      [] intent = "PlainQuery" -> TRUE

\* the first intent of the priority order whose rule matches
FirstMatch(prompt) ==
    Priority[CHOOSE i \in 1..Len(Priority) :
                /\ Matches(Priority[i], prompt)
                /\ \A j \in 1..(i - 1) : ~Matches(Priority[j], prompt)]

FirstMatchOf == [p \in Prompts |-> FirstMatch(p)]

\* C4: a chat turn runs the branch of the first rule that matches in the
\* order SendReport, SupportTicket, ProcessStoreDocuments, SaveSession,
\* PlainQuery, and no other command branch: a ticket is sent only by a
\* SupportTicket turn, a report only by a SendReport or SaveSession turn,
\* the store is read only by a ProcessStoreDocuments turn.
C4_FirstMatchingRuleWins ==
    Turn => /\ last.intent = FirstMatchOf[last.prompt]
            /\ last.ticket => last.intent = "SupportTicket"
            /\ last.reportTo # "" => last.intent \in {"SendReport", "SaveSession"}
            /\ last.texts >= 0 => last.intent = "ProcessStoreDocuments"

\* C4: a text that matches the send-report rule and the support-ticket rule
\* has sent the report and no ticket
C4_Witness ==
    /\ Turn
    /\ last.prompt = "send support ticket report x@y.zz, a@b.co"
    /\ SupportTicketTrigger(last.prompt)
    /\ last.intent = "SendReport"
    /\ last.reportTo = "x@y.zz"
    /\ ~last.ticket

(***************************************************************************)
(* C5..C7: the history and the document count.                             *)
(***************************************************************************)
IsPrefix(a, b) == Len(a) <= Len(b) /\ SubSeq(b, 1, Len(a)) = a

ClearStep == last'.kind = "clear" /\ last'.ok /\ sinceClear' = "cleared"

\* C6: document_count never decreases in a run that is not a successful
\* clear: not at the auto-initialisation, an upload ingestion, a store
\* re-processing or a chat turn.
C6_DocumentCountMonotonic ==
    [][ClearStep \/ document_count' >= document_count]_vars

\* the step is an ingestion that inserted every chunk of last'.texts documents
IngestionStep ==
    /\ last'.texts > 0
    /\ last'.inserted = last'.texts * ChunksPerText
    /\ collection'.count = collection.count + last'.inserted

\* C7: every successful ingestion, by a button or by the chat command, sets
\* the handle and adds the number of documents it ingested to document_count.
C7_IngestionIncrementsDocumentCount ==
    [][IngestionStep => /\ vectorstore' # None
                        /\ document_count' = document_count + last'.texts]_vars

(***************************************************************************)
(* C8..C10: the send-report branch, the clear, and the classification.     *)
(***************************************************************************)
\* the addresses extracted from the chat inputs that validate_email accepts
ValidExtracted == {e \in {EmailIn[p] : p \in Prompts} : validate_email(e)}

\* C8: a SendReport turn sends the report only if the address extracted
\* from the text passes validate_email, and then to that address; if the
\* extracted address fails, the turn replies with the invalid-address error
\* and sends nothing.
C8_DispatchOnlyToValidExtractedAddress ==
    Turn /\ last.intent = "SendReport"
        => LET e == EmailIn[last.prompt] IN
           IF e \in ValidExtracted
           THEN /\ last.reportTo = e
                /\ Reply \in {"Analysis report sent to " \o e \o "!",
                              "Failed to send report to " \o e}
           ELSE /\ last.reportTo = ""
                /\ Reply = "Invalid email address: " \o e

\* C8: a report was sent to the valid address of the text
C8_Witness ==
    /\ Turn
    /\ last.prompt = "send report to a@b.co"
    /\ last.intent = "SendReport"
    /\ last.reportTo = "a@b.co"
    /\ Reply = "Analysis report sent to a@b.co!"

\* C9 as stated: no chat turn between a successful clear and the next
\* successful ingestion performs a retrieval.
C9_NoRetrievalUntilNextSuccessfulIngestion ==
    Turn /\ sinceClear \in {"cleared", "partial"} => ~last.retrieved

\* C9, amended: the session never holds a handle issued before the last
\* successful clear, and from the clear to the next ingestion that inserts
\* a chunk into the collection, completed or not, the session holds no
\* handle and no chat turn performs a retrieval.
C9_NoRetrievalUntilNextInsert ==
    /\ ~handleStale
    /\ sinceClear = "cleared"
        => /\ vectorstore = None
           /\ collection.count = 0
           /\ Turn => ~last.retrieved

\* C9: a question asked after the clear of a session that was ready
C9_Witness ==
    /\ Turn
    /\ sinceClear = "cleared"
    /\ last.intent = "PlainQuery"
    /\ chat_model # None
    /\ vectorstore = None
    /\ ~last.retrieved

\* the intent of each chat input, whatever the session
ExpectedIntent ==
    "send report to a@b.co" :> "SendReport"
    @@ "send report to notanemail" :> "PlainQuery"
    @@ "send report to a@b" :> "SendReport"
    @@ "Send this repot a@b.c|d" :> "SendReport"
    @@ "send support ticket report x@y.zz, a@b.co" :> "SendReport"
    @@ "create support ticket" :> "SupportTicket"
    @@ "Process S3" :> "ProcessStoreDocuments"
    @@ "please process s3" :> "PlainQuery"
    @@ "save the session" :> "SaveSession"
    @@ "What does this lab report show?" :> "PlainQuery"

\* C10: the intent of a chat turn is a function of its text alone: in every
\* session state (history, document_count, handle, recipient) a turn with a
\* given text is classified as the one intent listed for that text.
C10_ClassificationDependsOnTextOnly ==
    Turn => last.intent = ExpectedIntent[last.prompt]

\* C10: the save-session text classified in a session with a recipient and
\* a handle, a state that differs from the initial one in each field
C10_Witness ==
    /\ Turn
    /\ last.prompt = "save the session"
    /\ last.intent = "SaveSession"
    /\ receiver_email # ""
    /\ vectorstore = "index"
    /\ document_count > 0

(***************************************************************************)
(* C11, C12: the support-ticket and process-s3 branches.                   *)
(***************************************************************************)
\* the step is a chat turn that appended to the history
ChatStep == last'.kind = "chat" /\ Len(messages') > Len(messages)

\* C11: a SupportTicket turn sends the ticket with no entity and whatever
\* the session's recipient is (none, invalid or valid); the recipient is
\* passed as the contact only, and the ticket goes to the operator address
\* of the configuration, never to an address of the user.
C11_TicketAlwaysToOperator ==
    [][ChatStep /\ last'.intent = "SupportTicket"
        => /\ last'.ticket
           /\ last'.contact = receiver_email
           /\ last'.ticketTo = "sudhanshu@euron.one"
           /\ last'.ticketTo \notin Emails
           /\ last'.reportTo = ""]_vars

\* C11: a ticket sent from a session whose recipient is set and invalid
C11_Witness ==
    /\ Turn
    /\ last.intent = "SupportTicket"
    /\ last.ticket
    /\ last.contact = "user@com"
    /\ last.contact \notin ValidReceivers
    /\ last.ticketTo = "sudhanshu@euron.one"

\* the chat inputs that begin with a process-s3 phrase, whatever the case
BeginsWithProcessS3 ==
    [p \in Prompts |->
        \E phrase \in {"process s3", "process all s3"} :
            /\ Len(p) >= Len(phrase)
            /\ lower(SubSeq(p, 1, Len(phrase))) = phrase]

\* C12: a chat turn is a ProcessStoreDocuments turn only if its text begins
\* with "process s3" or "process all s3" in any case and matches neither
\* the send-report nor the support-ticket rule; a text that holds such a
\* phrase elsewhere is not one, and no turn of another intent reads the
\* store or ingests.
C12_ProcessS3IsPrefixTrigger ==
    Turn => /\ last.intent = "ProcessStoreDocuments"
                <=> /\ BeginsWithProcessS3[last.prompt]
                    /\ FirstMatchOf[last.prompt] \notin {"SendReport", "SupportTicket"}
            /\ last.intent # "ProcessStoreDocuments"
                => last.texts = -1 /\ last.inserted = 0

\* C12: a question that holds the phrase after its first word
C12_Witness ==
    /\ Turn
    /\ last.prompt = "please process s3"
    /\ Contains(lower(last.prompt), "process s3")
    /\ last.intent = "PlainQuery"
    /\ last.texts = -1

(***************************************************************************)
(* C13, C14: the index collection and the object store.                    *)
(***************************************************************************)
\* the step is a run of one of the three ingestion handlers
IngestionRun == last'.texts >= 0

\* C13: the collection is Absent, Empty or Populated with a consistent
\* count: an ingestion raises count() by exactly the chunks of the batches
\* that succeeded (all of them, or the whole batches before the one that
\* failed, which adds nothing), a successful clear leaves count() at 0, no
\* other run changes count(), and only a clear makes the collection Absent.
\* So count() is the number of chunks inserted since the last clear, on top
\* of what the collection held at the start.
C13_CollectionCountConsistent ==
    [][/\ IF IngestionRun
          THEN /\ collection'.count = collection.count + last'.inserted
               /\ last'.inserted \in 0..(last'.texts * ChunksPerText)
               /\ last'.ok /\ last'.texts > 0
                    => last'.inserted = last'.texts * ChunksPerText
               /\ last'.inserted > 0 => collection'.exists
          ELSE ~ClearStep => collection'.count = collection.count
       /\ ClearStep => collection'.count = 0
       /\ ~ClearStep /\ collection.exists => collection'.exists
       /\ ~collection'.exists => collection'.count = 0]_vars

\* C13: a populated collection that an ingestion added every chunk to
C13_Witness ==
    /\ last.kind = "upload"
    /\ last.ok
    /\ last.inserted = ChunksPerText
    /\ collection.exists
    /\ collection.count = 2 * ChunksPerText

\* the StoredDocuments the store holds for a key
Copies(st, key) == Cardinality({i \in 1..Len(st) : st[i] = key})

\* C14: the store holds at most one StoredDocument per key, and a run that
\* uploads files whose keys all exist leaves the store as it was and lists
\* each file as already in the store (or as failed, if the store could not
\* be reached), storing none again.
C14_UploadIdempotentPerKey ==
    /\ [](\A key \in Files : Copies(store, key) <= 1)
    /\ [][IF last'.kind = "upload"
          THEN /\ last'.uploaded # {}
               /\ \A key \in last'.uploaded : Copies(store', key) <= 1
               /\ last'.uploaded \subseteq StoredKeys
                    => /\ store' = store
                       /\ \/ last'.already = last'.uploaded
                          \/ last'.failed = last'.uploaded
          ELSE store' = store]_vars

\* C14: a file uploaded again, found in the store and kept once
C14_Witness ==
    /\ last.kind = "upload"
    /\ last.already = {"a.pdf"}
    /\ store = <<"a.pdf">>

(***************************************************************************)
(* C15, C16: the user message and the response generation of a chat turn.  *)
(***************************************************************************)
\* the places of the history where the last run appended the user's prompt
PromptAppends ==
    {i \in (last.before + 1)..Len(messages) :
        messages[i].role = "user" /\ messages[i].content = last.prompt}

\* C15: a chat turn in which nothing raised has appended the user's prompt
\* to the history exactly once, whatever its intent and whether or not the
\* index is ready.
C15_PromptAppendedOnce ==
    Turn /\ last.ok => Cardinality(PromptAppends) = 1

\* C15: a command turn on a ready index, which goes on to the response
\* generation after its branch
C15_Witness ==
    /\ Turn
    /\ last.ok
    /\ last.intent = "SaveSession"
    /\ last.retrieved
    /\ Len(Appended) = 3
    /\ PromptAppends = {last.before + 1}

\* the answers the last run appended
AnswerAppends ==
    {i \in (last.before + 1)..Len(messages) :
        messages[i].role = "assistant" /\ messages[i].insights}

\* C16: a chat turn calls retrieval and the completion service only with
\* a handle and a chat model both set when the response generation is
\* reached; a turn that reaches it without one of them calls neither and
\* appends no answer.
C16_AnswerOnlyWithHandleAndModel ==
    Turn => /\ last.retrieved \/ last.completed
                => vectorstore # None /\ chat_model # None
            /\ last.completed => last.retrieved
            /\ AnswerAppends # {} => last.retrieved /\ last.completed
            /\ vectorstore = None \/ chat_model = None
                => ~last.retrieved /\ ~last.completed /\ AnswerAppends = {}

\* C16: a command turn in a session whose handle a clear discarded and
\* whose chat model is still set
C16_Witness ==
    /\ Turn
    /\ last.intent = "SupportTicket"
    /\ vectorstore = None
    /\ chat_model # None
    /\ ~last.retrieved
    /\ Roles(Appended) = <<"user", "assistant">>

(***************************************************************************)
(* C17..C20: what the handlers leave alone.                                *)
(***************************************************************************)
\* the handle, the chat model and the count are as the top of the run
\* (the defaults and the auto-initialisation) left them
SessionAsTopLeftIt ==
    \E ai \in CallOutcomes :
        LET t == AutoInit(vectorstore, chat_model, document_count, collection, ai)
        IN /\ vectorstore' = t.vs
           /\ chat_model' = t.cm
           /\ document_count' = t.dc

\* C17: a Process Documents run that got no text from any uploaded file
\* inserts nothing into the collection and leaves the handle, the count and
\* the chat model as they were when the handler started.
C17_UploadWithoutTextKeepsSession ==
    [][last'.kind = "upload" /\ last'.texts = 0
        => /\ last'.inserted = 0
           /\ collection'.count = collection.count
           /\ SessionAsTopLeftIt
           /\ messages' = messages]_vars

\* C17: such a run in a session that has no handle, and still has none
C17_Witness ==
    /\ last.kind = "upload"
    /\ last.texts = 0
    /\ last.uploaded = {"a.pdf"}
    /\ vectorstore = None
    /\ document_count = 0

\* the recipient a save-session run sends the summary to, if any
SaveRecipient == IF receiver_email \in ValidReceivers THEN receiver_email ELSE ""

\* C18: a save-session run, by chat command or by the sidebar button, sends
\* the summary only if the session's recipient is set and valid, and then
\* to it; otherwise it sends nothing and asks for a valid address. The chat
\* command appends its user and assistant messages in both cases.
C18_SaveSessionOnlyToValidReceiver ==
    [][/\ last'.kind = "chat" /\ last'.intent = "SaveSession"
            => /\ last'.reportTo = SaveRecipient
               /\ Len(messages') >= Len(messages) + 2
               /\ messages'[Len(messages) + 1] =
                      [role |-> "user", content |-> last'.prompt, insights |-> FALSE]
               /\ messages'[Len(messages) + 2].role = "assistant"
               /\ IF SaveRecipient = ""
                  THEN messages'[Len(messages) + 2].content =
                           "Please enter a valid email address to save session"
                  ELSE messages'[Len(messages) + 2].content \in
                           {"Session saved and summary sent to email!",
                            "Failed to save session"}
       /\ last'.kind = "sidebar_save"
            => /\ last'.reportTo = SaveRecipient
               /\ last'.ok <=> SaveRecipient # ""]_vars

\* C18: the chat command in a session whose recipient is set and invalid
C18_Witness ==
    /\ Turn
    /\ last.intent = "SaveSession"
    /\ receiver_email = "user@com"
    /\ last.reportTo = ""
    /\ Reply = "Please enter a valid email address to save session"

\* C19: a store re-processing run, by chat command or by the sidebar button,
\* that got no document with text from the store inserts nothing and leaves
\* the handle, the count and the chat model as they were when the handler
\* started; the chat command replies that no documents could be processed.
C19_ReprocessWithoutDocumentsKeepsSession ==
    [][last'.kind \in {"chat", "sidebar_process"} /\ last'.texts = 0
        => /\ last'.inserted = 0
           /\ collection'.count = collection.count
           /\ SessionAsTopLeftIt
           /\ last'.kind = "chat"
                => /\ Len(messages') >= Len(messages) + 2
                   /\ messages'[Len(messages) + 2] =
                          [role |-> "assistant",
                           content |-> "No documents could be processed from S3",
                           insights |-> FALSE]]_vars

\* C19: the chat command on a store that holds no document, in a session
\* with no handle
C19_Witness ==
    /\ Turn
    /\ last.intent = "ProcessStoreDocuments"
    /\ last.texts = 0
    /\ store = <<>>
    /\ vectorstore = None
    /\ Reply = "No documents could be processed from S3"

\* C20: a clear that returned false or raised leaves the handle, the count
\* and the chat model as they were when the handler started, and the
\* history, the recipient and the collection as they were; a clear that
\* succeeded leaves no handle and a count of 0, and the rest alone.
C20_FailedClearKeepsSession ==
    [][last'.kind = "clear"
        => /\ messages' = messages
           /\ receiver_email' = receiver_email
           /\ IF last'.ok
              THEN /\ vectorstore' = None
                   /\ document_count' = 0
                   /\ collection'.count = 0
              ELSE /\ SessionAsTopLeftIt
                   /\ collection'.count = collection.count]_vars

\* C20: a failed clear in a session that is ready, and still is
C20_Witness ==
    /\ last.kind = "clear"
    /\ ~last.ok
    /\ vectorstore = "index"
    /\ chat_model # None
    /\ document_count = 1
    /\ collection.count > 0
    /\ Len(messages) > 0

====
